---- MODULE Spec2Model ----
(***************************************************************************)
(* Model of the App component (image upload, prompt, enhance button) and   *)
(* of fileToBase64.  One state of the model is one committed render of the *)
(* component: every action is one browser event (a DOM event on one of the *)
(* three controls, or the settling of the FileReader / of the service      *)
(* promise) together with the state updates of its handler and the         *)
(* re-render that follows them.                                            *)
(*                                                                         *)
(* JavaScript strings that the code only compares or concatenates are TLA+ *)
(* strings; strings the code takes apart (file.type, the data URL) are     *)
(* sequences of one-character strings.                                     *)
(***************************************************************************)
EXTENDS FiniteSets, Integers, Sequences, TLC

\* ---------------------------------------------------------------- bounds
\* Object URLs created in one run (URL.createObjectURL is never bounded by
\* the code).
MaxUrls == 3
\* Enhancement attempts that the model lets be in flight together.
MaxInFlight == 2
\* Lengths of the declared type and of the base64 body of the files that
\* fileToBase64 is applied to on its own.
MaxTypeLen == 2
MaxBodyLen == 2

\* ---------------------------------------------------------------- values
\* null / undefined of the source.
Null == "null"
\* originalImageUrl before any upload (useState(null)).
NoUrl == 0

\* The files the user can pick.
Files == {"cat.png", "dog.jpg", "empty.png", "doc.pdf"}

\* file.type of each file.
FileType(f) ==
  CASE f = "cat.png"   -> <<"i","m","a","g","e","/","p","n","g">>
    [] f = "dog.jpg"   -> <<"i","m","a","g","e","/","j","p","e","g">>
    [] f = "empty.png" -> <<"i","m","a","g","e","/","p","n","g">>
    [] OTHER           -> <<"a","p","p","l","i","c","a","t","i","o","n","/","p","d","f">>

\* The base64 text of the file's bytes (empty.png has no bytes).
FileBody(f) ==
  CASE f = "cat.png"   -> <<"Q","U","J","D">>
    [] f = "dog.jpg"   -> <<"R","A","=","=">>
    [] f = "empty.png" -> <<>>
    [] OTHER           -> <<"U","E","R","G">>

\* reader.result after readAsDataURL(file): "data:<type>;base64,<body>".
\* A file with an empty type is read as application/octet-stream.
DataURL(type, body) ==
  <<"d","a","t","a",":">>
    \o (IF type = <<>>
        THEN <<"a","p","p","l","i","c","a","t","i","o","n","/",
               "o","c","t","e","t","-","s","t","r","e","a","m">>
        ELSE type)
    \o <<";","b","a","s","e","6","4",",">> \o body

ReadAsDataURL(f) == DataURL(FileType(f), FileBody(f))

\* The texts the user can type into the prompt box.
Prompts == {"", "add a hat", "make it red"}

\* What the edit service resolves with: a base64 image, or null (no image).
ServiceValues == {"BBBB", "CCCC"}
\* Messages of the errors the edit service rejects with.
ServiceMessages == {"quota exceeded"}

\* A thrown value: whether it is an instance of Error, and its message.
Thrown(isErr, msg) == [instanceOfError |-> isErr, message |-> msg]
NoThrown == Thrown(FALSE, Null)
\* The ProgressEvent that reader.onerror passes to reject.
ProgressEvent == Thrown(FALSE, Null)

\* JavaScript truthiness of a nullable string.
Truthy(s) == s # Null /\ s # ""

\* startsWith that compares lengths only.
StartsWith_LengthOnly(s, p) == Len(s) >= Len(p)

\* String.prototype.startsWith on character sequences.
StartsWith(s, p) == Len(s) >= Len(p) /\ SubSeq(s, 1, Len(p)) = p

ImagePrefix == <<"i","m","a","g","e","/">>

\* split that cuts at the first separator only.
Split_AtFirst(s, sep) ==
  IF \E i \in 1..Len(s) : s[i] = sep
  THEN LET i == CHOOSE k \in 1..Len(s) :
                  s[k] = sep /\ \A j \in 1..(k-1) : s[j] # sep
       IN  <<SubSeq(s, 1, i-1), SubSeq(s, i+1, Len(s))>>
  ELSE <<s>>

\* String.prototype.split(sep) on character sequences.
RECURSIVE Split(_, _)
Split(s, sep) ==
  IF \E i \in 1..Len(s) : s[i] = sep
  THEN LET i == CHOOSE k \in 1..Len(s) :
                  s[k] = sep /\ \A j \in 1..(k-1) : s[j] # sep
       IN  <<SubSeq(s, 1, i-1)>> \o Split(SubSeq(s, i+1, Len(s)), sep)
  ELSE <<s>>

\* ---------------------------------------------------------------- fileToBase64
\* The outcome of the promise of fileToBase64 for a file of the given type
\* whose reader fires onload with the given result (loaded) or fires onerror:
\* resolved with {base64, mimeType}, or rejected with a thrown value.
ReaderOutcome(type, result, loaded) ==
  IF loaded
  THEN LET parts == Split(result, ",")
           base64String == IF Len(parts) >= 2 THEN parts[2] ELSE <<>>
       IN  IF Len(parts) >= 2 /\ base64String # <<>>
           THEN [resolved |-> TRUE, base64 |-> base64String,
                 mimeType |-> type, thrown |-> NoThrown]
           ELSE [resolved |-> FALSE, base64 |-> <<>>, mimeType |-> <<>>,
                 thrown |-> Thrown(TRUE, "Failed to read base64 string from file.")]
  ELSE [resolved |-> FALSE, base64 |-> <<>>, mimeType |-> <<>>,
        thrown |-> ProgressEvent]

\* fileToBase64(f) for one of the files the user can pick.
fileToBase64(f, loaded) == ReaderOutcome(FileType(f), ReadAsDataURL(f), loaded)

\* ---------------------------------------------------------------- state
VARIABLES
  originalFile,      \* useState<File | null>
  originalImageUrl,  \* useState<string | null>: index into objectURLs, or NoUrl
  editedImageUrl,    \* useState<string | null>
  prompt,            \* useState<string>
  isLoading,         \* useState<boolean>
  error,             \* useState<string | null>
  objectURLs,        \* the object URLs created so far: i-th URL -> its file
  attempts,          \* the running invocations of handleEnhanceClick
  lastEvent,         \* the browser event the last step handled
  call               \* a call of fileToBase64 on its own: its file, reader
                     \* and promise

vars == <<originalFile, originalImageUrl, editedImageUrl, prompt, isLoading,
          error, objectURLs, attempts, lastEvent, call>>

app == <<originalFile, originalImageUrl, editedImageUrl, prompt, isLoading,
         error, objectURLs, attempts, lastEvent>>

view == <<originalFile, originalImageUrl, editedImageUrl, prompt, isLoading,
          error>>

Event(kind, file, text, thrown, att) ==
  [kind |-> kind, file |-> file, text |-> text, thrown |-> thrown,
   attempt |-> att]

\* An invocation of handleEnhanceClick: the file and prompt of its closure,
\* the promises it is awaiting, how often it called the encoder and the
\* service, and the arguments of its service call.
Attempt(f, p, out, enc, sub, b64, mime, instr) ==
  [file |-> f, prompt |-> p, outstanding |-> out,
   encodeCalls |-> enc, submitCalls |-> sub,
   base64 |-> b64, mimeType |-> mime, instruction |-> instr]
NoAttempt == Attempt(Null, Null, {}, 0, 0, <<>>, <<>>, Null)

\* A call of fileToBase64: the file's type and base64 body, the reader
\* (idle, loading, done) and the event it fired, and the promise with the
\* number of times it was settled.
Call(type, body, reader, event, state, b64, mime, thrown, settles) ==
  [type |-> type, body |-> body, reader |-> reader, event |-> event,
   state |-> state, base64 |-> b64, mimeType |-> mime, thrown |-> thrown,
   settles |-> settles]
NoCall == Call(<<>>, <<>>, "idle", Null, "pending", <<>>, <<>>, NoThrown, 0)

Init ==
  /\ call = NoCall
  /\ originalFile = Null
  /\ originalImageUrl = NoUrl
  /\ editedImageUrl = Null
  /\ prompt = ""
  /\ isLoading = FALSE
  /\ error = Null
  /\ objectURLs = <<>>
  /\ attempts = <<>>
  /\ lastEvent = Event("init", Null, Null, NoThrown, NoAttempt)

\* ---------------------------------------------------------------- select file
\* handleImageUpload without setError(null) on a valid file.
handleImageUpload_KeepError(f) ==
  /\ UNCHANGED call
  /\ lastEvent' = Event("selectFile", f, Null, NoThrown, NoAttempt)
  /\ IF f = Null
     THEN UNCHANGED <<view, objectURLs, attempts>>
     ELSE IF ~StartsWith(FileType(f), ImagePrefix)
     THEN /\ error' = "Please upload a valid image file."
          /\ UNCHANGED <<originalFile, originalImageUrl, editedImageUrl,
                         prompt, isLoading, objectURLs, attempts>>
     ELSE /\ Len(objectURLs) < MaxUrls
          /\ originalFile' = f
          /\ objectURLs' = Append(objectURLs, f)
          /\ originalImageUrl' = Len(objectURLs) + 1
          /\ editedImageUrl' = Null
          /\ UNCHANGED <<prompt, isLoading, error, attempts>>

\* handleImageUpload that also resets isLoading on a valid file.
handleImageUpload_ClearLoading(f) ==
  /\ UNCHANGED call
  /\ lastEvent' = Event("selectFile", f, Null, NoThrown, NoAttempt)
  /\ IF f = Null
     THEN UNCHANGED <<view, objectURLs, attempts>>
     ELSE IF ~StartsWith(FileType(f), ImagePrefix)
     THEN /\ error' = "Please upload a valid image file."
          /\ UNCHANGED <<originalFile, originalImageUrl, editedImageUrl,
                         prompt, isLoading, objectURLs, attempts>>
     ELSE /\ Len(objectURLs) < MaxUrls
          /\ originalFile' = f
          /\ objectURLs' = Append(objectURLs, f)
          /\ originalImageUrl' = Len(objectURLs) + 1
          /\ editedImageUrl' = Null
          /\ error' = Null
          /\ isLoading' = FALSE
          /\ UNCHANGED <<prompt, attempts>>

\* onChange of the file input; f = Null is an empty FileList.
handleImageUpload(f) ==
  /\ UNCHANGED call
  /\ lastEvent' = Event("selectFile", f, Null, NoThrown, NoAttempt)
  /\ IF f = Null
     THEN UNCHANGED <<view, objectURLs, attempts>>
     ELSE IF ~StartsWith(FileType(f), ImagePrefix)
     THEN /\ error' = "Please upload a valid image file."
          /\ UNCHANGED <<originalFile, originalImageUrl, editedImageUrl,
                         prompt, isLoading, objectURLs, attempts>>
     ELSE /\ Len(objectURLs) < MaxUrls
          /\ originalFile' = f
          /\ objectURLs' = Append(objectURLs, f)
          /\ originalImageUrl' = Len(objectURLs) + 1
          /\ editedImageUrl' = Null
          /\ error' = Null
          /\ UNCHANGED <<prompt, isLoading, attempts>>

SelectFile == \E f \in Files \cup {Null} : handleImageUpload(f)

\* ---------------------------------------------------------------- change text
ChangeText ==
  \E t \in Prompts :
    /\ prompt' = t
    /\ UNCHANGED call
    /\ lastEvent' = Event("changeText", Null, t, NoThrown, NoAttempt)
    /\ UNCHANGED <<originalFile, originalImageUrl, editedImageUrl, isLoading,
                   error, objectURLs, attempts>>

\* ---------------------------------------------------------------- trigger
\* The button enabled while a request is loading.
isButtonDisabled_NoLoading == ~Truthy(originalFile) \/ ~Truthy(prompt)

\* The button enabled with an empty prompt.
isButtonDisabled_NoPrompt == ~Truthy(originalFile) \/ isLoading

isButtonDisabled == ~Truthy(originalFile) \/ ~Truthy(prompt) \/ isLoading

\* handleEnhanceClick starting the encoder and the service together.
handleEnhanceClick_Parallel ==
  IF ~Truthy(originalFile) \/ ~Truthy(prompt)
  THEN /\ error' = "Please upload an image and enter a prompt."
       /\ UNCHANGED <<originalFile, originalImageUrl, editedImageUrl, prompt,
                      isLoading, objectURLs, attempts>>
  ELSE /\ Len(attempts) < MaxInFlight
       /\ isLoading' = TRUE
       /\ error' = Null
       /\ editedImageUrl' = Null
       /\ attempts' = Append(attempts,
            Attempt(originalFile, prompt, {"encode", "submit"}, 1, 1,
                    <<>>, <<>>, prompt))
       /\ UNCHANGED <<originalFile, originalImageUrl, prompt, objectURLs>>

\* handleEnhanceClick without setEditedImageUrl(null).
handleEnhanceClick_KeepEdited ==
  IF ~Truthy(originalFile) \/ ~Truthy(prompt)
  THEN /\ error' = "Please upload an image and enter a prompt."
       /\ UNCHANGED <<originalFile, originalImageUrl, editedImageUrl, prompt,
                      isLoading, objectURLs, attempts>>
  ELSE /\ Len(attempts) < MaxInFlight
       /\ isLoading' = TRUE
       /\ error' = Null
       /\ attempts' = Append(attempts,
            Attempt(originalFile, prompt, {"encode"}, 1, 0, <<>>, <<>>, Null))
       /\ UNCHANGED <<originalFile, originalImageUrl, editedImageUrl, prompt,
                      objectURLs>>

\* The synchronous part of handleEnhanceClick, up to its first await.
handleEnhanceClick ==
  IF ~Truthy(originalFile) \/ ~Truthy(prompt)
  THEN /\ error' = "Please upload an image and enter a prompt."
       /\ UNCHANGED <<originalFile, originalImageUrl, editedImageUrl, prompt,
                      isLoading, objectURLs, attempts>>
  ELSE /\ Len(attempts) < MaxInFlight
       /\ isLoading' = TRUE
       /\ error' = Null
       /\ editedImageUrl' = Null
       /\ attempts' = Append(attempts,
            Attempt(originalFile, prompt, {"encode"}, 1, 0, <<>>, <<>>, Null))
       /\ UNCHANGED <<originalFile, originalImageUrl, prompt, objectURLs>>

\* A click on the button: a disabled button dispatches no click event.
EnhanceClick ==
  /\ UNCHANGED call
  /\ lastEvent' = Event("click", Null, IF isButtonDisabled THEN "disabled" ELSE "enabled",
                        NoThrown, NoAttempt)
  /\ IF isButtonDisabled
     THEN UNCHANGED <<view, objectURLs, attempts>>
     ELSE handleEnhanceClick

\* ---------------------------------------------------------------- completions
Remove(s, i) == SubSeq(s, 1, i-1) \o SubSeq(s, i+1, Len(s))

\* catch that stores the error's message without the prefix.
CatchFinally_NoPrefix(i, err) ==
  /\ error' = (IF err.instanceOfError THEN err.message
                ELSE "An unknown error occurred.")
  /\ isLoading' = FALSE
  /\ attempts' = Remove(attempts, i)
  /\ UNCHANGED <<originalFile, originalImageUrl, editedImageUrl, prompt,
                 objectURLs>>

\* catch that always stores the generic message.
CatchFinally_Generic(i, err) ==
  /\ error' = "Failed to enhance image. " \o "An unknown error occurred."
  /\ isLoading' = FALSE
  /\ attempts' = Remove(attempts, i)
  /\ UNCHANGED <<originalFile, originalImageUrl, editedImageUrl, prompt,
                 objectURLs>>

\* catch without the finally block: isLoading is left as it was.
CatchFinally_KeepLoading(i, err) ==
  /\ error' = "Failed to enhance image. "
                \o (IF err.instanceOfError THEN err.message
                    ELSE "An unknown error occurred.")
  /\ attempts' = Remove(attempts, i)
  /\ UNCHANGED <<originalFile, originalImageUrl, editedImageUrl, prompt,
                 isLoading, objectURLs>>

\* catch that takes the message of the values that are not Errors.
CatchFinally_Inverted(i, err) ==
  /\ error' = "Failed to enhance image. "
                \o (IF ~err.instanceOfError THEN err.message
                    ELSE "An unknown error occurred.")
  /\ isLoading' = FALSE
  /\ attempts' = Remove(attempts, i)
  /\ UNCHANGED <<originalFile, originalImageUrl, editedImageUrl, prompt,
                 objectURLs>>

\* catch and finally of handleEnhanceClick, ending attempt i.
CatchFinally(i, err) ==
  /\ error' = "Failed to enhance image. "
                \o (IF err.instanceOfError THEN err.message
                    ELSE "An unknown error occurred.")
  /\ isLoading' = FALSE
  /\ attempts' = Remove(attempts, i)
  /\ UNCHANGED <<originalFile, originalImageUrl, editedImageUrl, prompt,
                 objectURLs>>

\* The continuation reading the file and the prompt of the current state
\* instead of those of its closure.
EncoderSettles_CurrentState ==
  \E i \in DOMAIN attempts, loaded \in BOOLEAN :
    /\ UNCHANGED call
    /\ "encode" \in attempts[i].outstanding
    /\ LET a == attempts[i]
           r == fileToBase64(originalFile, loaded)
           b == [a EXCEPT !.outstanding = (@ \ {"encode"}) \cup {"submit"},
                          !.submitCalls = @ + 1,
                          !.base64 = r.base64,
                          !.mimeType = r.mimeType,
                          !.instruction = prompt]
       IN  IF r.resolved
           THEN /\ attempts' = [attempts EXCEPT ![i] = b]
                /\ lastEvent' = Event("encodeResolved", a.file, Null, NoThrown, b)
                /\ UNCHANGED <<view, objectURLs>>
           ELSE /\ lastEvent' = Event("encodeRejected", a.file, Null, r.thrown,
                                      [a EXCEPT !.outstanding = @ \ {"encode"}])
                /\ CatchFinally(i, r.thrown)

\* The FileReader of attempt i fires onload or onerror, and the handler
\* resumes after its first await.
EncoderSettles ==
  \E i \in DOMAIN attempts, loaded \in BOOLEAN :
    /\ UNCHANGED call
    /\ "encode" \in attempts[i].outstanding
    /\ LET a == attempts[i]
           r == fileToBase64(a.file, loaded)
           b == [a EXCEPT !.outstanding = (@ \ {"encode"}) \cup {"submit"},
                          !.submitCalls = @ + 1,
                          !.base64 = r.base64,
                          !.mimeType = r.mimeType,
                          !.instruction = a.prompt]
       IN  IF r.resolved
           THEN /\ attempts' = [attempts EXCEPT ![i] = b]
                /\ lastEvent' = Event("encodeResolved", a.file, Null, NoThrown, b)
                /\ UNCHANGED <<view, objectURLs>>
           ELSE /\ lastEvent' = Event("encodeRejected", a.file, Null, r.thrown,
                                      [a EXCEPT !.outstanding = @ \ {"encode"}])
                /\ CatchFinally(i, r.thrown)

\* The promise of editImageWithGemini of attempt i settles, and the handler
\* resumes after its second await.  v = Null is a response with no image.
ServiceResolves ==
  \E i \in DOMAIN attempts, v \in ServiceValues \cup {Null} :
    /\ UNCHANGED call
    /\ "submit" \in attempts[i].outstanding
    /\ LET a == [attempts[i] EXCEPT !.outstanding = @ \ {"submit"}]
       IN  /\ lastEvent' = Event("serviceResolved", a.file, v, NoThrown, a)
           /\ IF Truthy(v)
              THEN /\ editedImageUrl' = "data:image/png;base64," \o v
                   /\ isLoading' = FALSE
                   /\ attempts' = Remove(attempts, i)
                   /\ UNCHANGED <<originalFile, originalImageUrl, prompt, error,
                                  objectURLs>>
              ELSE CatchFinally(i, Thrown(TRUE,
                     "The API did not return an image. Please try a different prompt."))

\* A rejection after which the handler calls the service again.
ServiceRejects_Retry ==
  \E i \in DOMAIN attempts,
     t \in {Thrown(TRUE, m) : m \in ServiceMessages} \cup {Thrown(FALSE, Null)} :
    /\ UNCHANGED call
    /\ "submit" \in attempts[i].outstanding
    /\ lastEvent' = Event("serviceRejected", attempts[i].file, Null, t, attempts[i])
    /\ attempts' = [attempts EXCEPT ![i].submitCalls = @ + 1]
    /\ UNCHANGED <<view, objectURLs>>

\* The promise of editImageWithGemini of attempt i rejects with t.
ServiceRejects ==
  \E i \in DOMAIN attempts,
     t \in {Thrown(TRUE, m) : m \in ServiceMessages} \cup {Thrown(FALSE, Null)} :
    /\ UNCHANGED call
    /\ "submit" \in attempts[i].outstanding
    /\ LET a == [attempts[i] EXCEPT !.outstanding = @ \ {"submit"}]
       IN  /\ lastEvent' = Event("serviceRejected", a.file, Null, t, a)
           /\ CatchFinally(i, t)

Next ==
  \/ SelectFile
  \/ ChangeText
  \/ EnhanceClick
  \/ EncoderSettles
  \/ ServiceResolves
  \/ ServiceRejects

Spec == Init /\ [][Next]_vars

\* The FileReader and the network settle every promise that is outstanding.
FairSpec ==
  /\ Spec
  /\ WF_vars(EncoderSettles)
  /\ WF_vars(ServiceResolves \/ ServiceRejects)

\* ---------------------------------------------------------------- fileToBase64 on its own
SeqsUpTo(S, n) == UNION {[1..k -> S] : k \in 0..n}

\* The declared types and the base64 bodies of the files it is applied to.
CallTypes == SeqsUpTo({"p", ","}, MaxTypeLen)
CallBodies == SeqsUpTo({"A", "B"}, MaxBodyLen)

\* fileToBase64(file) has been called: the promise is pending and the reader
\* is loading the file.
CallInit ==
  /\ originalFile = Null
  /\ originalImageUrl = NoUrl
  /\ editedImageUrl = Null
  /\ prompt = ""
  /\ isLoading = FALSE
  /\ error = Null
  /\ objectURLs = <<>>
  /\ attempts = <<>>
  /\ lastEvent = Event("init", Null, Null, NoThrown, NoAttempt)
  /\ \E t \in CallTypes, b \in CallBodies :
       call = Call(t, b, "loading", Null, "pending", <<>>, <<>>, NoThrown, 0)

\* The reader fires onload or onerror; resolve and reject act on a pending
\* promise only.
ReaderFires ==
  \E loaded \in BOOLEAN :
    /\ call.reader = "loading"
    /\ LET r == ReaderOutcome(call.type, DataURL(call.type, call.body), loaded)
       IN  call' = IF call.state = "pending"
                   THEN Call(call.type, call.body, "done",
                             IF loaded THEN "load" ELSE "error",
                             IF r.resolved THEN "resolved" ELSE "rejected",
                             r.base64, r.mimeType, r.thrown, call.settles + 1)
                   ELSE [call EXCEPT !.reader = "done"]
    /\ UNCHANGED app

CallNext == ReaderFires

CallSpec == CallInit /\ [][CallNext]_vars

\* ================================================================ claims

\* The object URLs that were created and not released.  The component never
\* calls URL.revokeObjectURL, so every created URL stays live.
LiveObjectURLs == DOMAIN objectURLs

\* The events that end an attempt (its finally block has run).
FinishKinds == {"encodeRejected", "serviceResolved", "serviceRejected"}

\* s contains m, for the places a message can take in an error text.
Contains(s, m) == \E p \in {"", "Failed to enhance image. "} : s = p \o m

\* C1: in every reachable state at most one enhancement attempt has started
\* and not yet finished.
C1_SingleInFlight == Len(attempts) <= 1

\* C1 witness: an attempt is in flight and the user has just selected another
\* valid file.
C1_Witness ==
  /\ Len(attempts) = 1
  /\ lastEvent.kind = "selectFile"
  /\ originalFile # Null
  /\ originalFile # attempts[1].file

\* C2 as stated: every finished attempt has called the encoder exactly once
\* and the service exactly once.
C2_Original ==
  lastEvent.kind \in FinishKinds =>
    lastEvent.attempt.encodeCalls = 1 /\ lastEvent.attempt.submitCalls = 1

\* C2 amended: an attempt awaits the encoder and the service one at a time,
\* the encoder first; the encoder is called exactly once; the service is
\* called exactly once, with the encoder's result, after the encoder has
\* resolved, and not at all when the encoder rejects.
C2_EncodeThenSubmit ==
  /\ \A i \in DOMAIN attempts :
       LET a == attempts[i] IN
         /\ a.outstanding \in {{"encode"}, {"submit"}}
         /\ a.encodeCalls = 1
         /\ "encode" \in a.outstanding => a.submitCalls = 0
         /\ "submit" \in a.outstanding =>
              /\ a.submitCalls = 1
              /\ a.base64 = FileBody(a.file)
              /\ a.base64 # <<>>
  /\ lastEvent.kind \in FinishKinds =>
       /\ lastEvent.attempt.outstanding = {}
       /\ lastEvent.attempt.encodeCalls = 1
       /\ lastEvent.attempt.submitCalls =
            (IF lastEvent.kind = "encodeRejected" THEN 0 ELSE 1)

\* C2 witness: an attempt has finished after one encoder call and one service
\* call.
C2_Witness ==
  /\ lastEvent.kind = "serviceResolved"
  /\ lastEvent.attempt.encodeCalls = 1
  /\ lastEvent.attempt.submitCalls = 1
  /\ lastEvent.attempt.base64 = FileBody(lastEvent.file)

\* C3 as stated: right after the service resolves an attempt with a value V,
\* editedImageUrl is data:image/png;base64,V, isLoading is false and error is
\* empty.
C3_Original ==
  (lastEvent.kind = "serviceResolved" /\ Truthy(lastEvent.text)) =>
    /\ editedImageUrl = "data:image/png;base64," \o lastEvent.text
    /\ isLoading = FALSE
    /\ error = Null

\* C4: right after the service resolves an attempt with no image, error is the
\* fixed text, editedImageUrl is unset and isLoading is false.
C4_AbsentResult ==
  (lastEvent.kind = "serviceResolved" /\ lastEvent.text = Null) =>
    /\ error = "Failed to enhance image. The API did not return an image. Please try a different prompt."
    /\ editedImageUrl = Null
    /\ isLoading = FALSE

\* C4 witness: the service has resolved with no image, after the user selected
\* another valid file during the attempt.
C4_Witness ==
  /\ lastEvent.kind = "serviceResolved"
  /\ lastEvent.text = Null
  /\ originalFile # lastEvent.file
  /\ error # Null

\* C5: right after the service rejects an attempt with an Error carrying
\* message M, error contains M, editedImageUrl is unset, isLoading is false
\* and the handler has ended.
C5_ServiceRejection ==
  (lastEvent.kind = "serviceRejected" /\ lastEvent.thrown.instanceOfError) =>
    /\ Contains(error, lastEvent.thrown.message)
    /\ editedImageUrl = Null
    /\ isLoading = FALSE
    /\ attempts = <<>>

\* C5 witness: the service has rejected with an Error carrying a message.
C5_Witness ==
  /\ lastEvent.kind = "serviceRejected"
  /\ lastEvent.thrown = Thrown(TRUE, "quota exceeded")
  /\ error = "Failed to enhance image. quota exceeded"

\* A file whose declared type does not begin with "image/".
NonImage(f) == f # Null /\ SubSeq(FileType(f), 1, 6) # ImagePrefix

\* C6: selecting a file whose type does not begin with "image/" sets error to
\* the validation text and changes nothing else of the view state.
C6_NonImageSelection ==
  [][(lastEvent'.kind = "selectFile" /\ NonImage(lastEvent'.file)) =>
       /\ error' = "Please upload a valid image file."
       /\ UNCHANGED <<originalFile, originalImageUrl, editedImageUrl, prompt,
                      isLoading, objectURLs, attempts>>]_vars

\* C6 witness: a non-image file was selected while an image was loaded and an
\* attempt was in flight.
C6_Witness ==
  /\ lastEvent.kind = "selectFile"
  /\ lastEvent.file = "doc.pdf"
  /\ error = "Please upload a valid image file."
  /\ originalFile = "cat.png"
  /\ isLoading

\* C7: right after a valid image file is selected, originalImageUrl refers to
\* that file, editedImageUrl is unset and error is empty.
C7_ValidSelection ==
  (lastEvent.kind = "selectFile" /\ lastEvent.file # Null
     /\ ~NonImage(lastEvent.file)) =>
    /\ originalFile = lastEvent.file
    /\ originalImageUrl # NoUrl
    /\ objectURLs[originalImageUrl] = lastEvent.file
    /\ editedImageUrl = Null
    /\ error = Null

\* C7 witness: a valid file has replaced another one.
C7_Witness ==
  /\ lastEvent.kind = "selectFile"
  /\ lastEvent.file = "dog.jpg"
  /\ originalImageUrl = 2
  /\ objectURLs = <<"cat.png", "dog.jpg">>

\* C8: a trigger with no original image, an empty prompt or a request loading
\* changes no field of the view state and starts no attempt.
C8_GuardedTrigger ==
  [][(lastEvent'.kind = "click"
        /\ (originalFile = Null \/ originalImageUrl = NoUrl
              \/ prompt = "" \/ isLoading)) =>
       UNCHANGED <<view, objectURLs, attempts>>]_vars

\* C8 witness: the button was clicked while a request was loading.
C8_Witness ==
  /\ lastEvent.kind = "click"
  /\ lastEvent.text = "disabled"
  /\ isLoading
  /\ Len(attempts) = 1

\* C9 as stated: isLoading and a non-empty error never hold together.
C9_Original == ~(isLoading /\ error # Null)

\* C10 as stated: at most one original-image object URL is created and not
\* released.
C10_Original == Cardinality(LiveObjectURLs) <= 1

\* The events that end an attempt with a failure.
FailKinds == {"encodeRejected", "serviceRejected"}

\* C11: when the reader and the service settle, every started attempt ends
\* with isLoading false, and after a failed attempt the button is enabled
\* whenever an original image is present and the prompt is not empty.
C11_AttemptEnds ==
  /\ isLoading ~> ~isLoading
  /\ [](((lastEvent.kind \in FailKinds
            \/ (lastEvent.kind = "serviceResolved" /\ lastEvent.text = Null))
          /\ originalFile # Null /\ prompt # "") => ~isButtonDisabled)

\* C11 witness: an attempt has failed and the button is enabled again.
C11_Witness ==
  /\ lastEvent.kind = "serviceRejected"
  /\ ~isLoading
  /\ ~isButtonDisabled
  /\ attempts = <<>>

\* C12: right after an attempt fails with a thrown value, error is the prefix
\* "Failed to enhance image. " followed by the value's message, or by
\* "An unknown error occurred." exactly when the value carries no message,
\* and isLoading is false.
C12_ErrorText ==
  lastEvent.kind \in FailKinds =>
    /\ error = "Failed to enhance image. "
                 \o (IF lastEvent.thrown.message # Null
                     THEN lastEvent.thrown.message
                     ELSE "An unknown error occurred.")
    /\ isLoading = FALSE

\* C12 witness: the reader reported an error, which carries no message.
C12_Witness ==
  /\ lastEvent.kind = "encodeRejected"
  /\ lastEvent.thrown = ProgressEvent
  /\ error = "Failed to enhance image. An unknown error occurred."

\* C13: right after an accepted trigger error is empty, editedImageUrl is
\* unset, isLoading is true and the encoder has been called once and not the
\* service; editedImageUrl is unset in every state with an attempt in flight.
C13_TriggerClears ==
  /\ (lastEvent.kind = "click" /\ lastEvent.text = "enabled") =>
       /\ error = Null
       /\ editedImageUrl = Null
       /\ isLoading = TRUE
       /\ attempts # <<>>
       /\ attempts[Len(attempts)].outstanding = {"encode"}
       /\ attempts[Len(attempts)].submitCalls = 0
  /\ attempts # <<>> => editedImageUrl = Null

\* C13 witness: an accepted trigger has started an attempt.
C13_Witness ==
  /\ lastEvent.kind = "click"
  /\ lastEvent.text = "enabled"
  /\ Len(attempts) = 1
  /\ attempts[1].file = "dog.jpg"
  /\ attempts[1].prompt = "make it red"

\* C15: an attempt calls the service at most once, does not call it again
\* after a rejection, and does not call it at all when the encoder fails.
C15_NoRetry ==
  /\ \A i \in DOMAIN attempts : attempts[i].submitCalls <= 1
  /\ lastEvent.kind \in FinishKinds => lastEvent.attempt.submitCalls <= 1
  /\ lastEvent.kind = "encodeRejected" =>
       /\ lastEvent.attempt.submitCalls = 0
       /\ "submit" \notin lastEvent.attempt.outstanding
  /\ lastEvent.kind \in FailKinds =>
       \A i \in DOMAIN attempts : "submit" \notin attempts[i].outstanding

\* C15 witness: the encoder rejected a file with no bytes and the attempt
\* ended without a service call.
C15_Witness ==
  /\ lastEvent.kind = "encodeRejected"
  /\ lastEvent.file = "empty.png"
  /\ lastEvent.thrown.instanceOfError
  /\ lastEvent.attempt.submitCalls = 0
  /\ attempts = <<>>

\* C16 as stated: when editedImageUrl is set by an attempt, the attempt's
\* input is the image that originalImageUrl refers to.
C16_Original ==
  (lastEvent.kind = "serviceResolved" /\ editedImageUrl # Null) =>
    /\ originalImageUrl # NoUrl
    /\ objectURLs[originalImageUrl] = lastEvent.file

\* C17: an accepted trigger starts an attempt on the file and the prompt of
\* that moment; an attempt in flight keeps them whatever the user does, and
\* the service is called with the encoding of that file and with that prompt.
C17_CapturedInputs ==
  [][/\ (lastEvent'.kind = "click" /\ lastEvent'.text = "enabled") =>
          /\ Len(attempts') = Len(attempts) + 1
          /\ attempts'[Len(attempts')].file = originalFile
          /\ attempts'[Len(attempts')].prompt = prompt
     /\ Len(attempts') >= Len(attempts) =>
          \A i \in DOMAIN attempts :
            /\ attempts'[i].file = attempts[i].file
            /\ attempts'[i].prompt = attempts[i].prompt
     /\ lastEvent'.kind = "encodeResolved" =>
          LET b == lastEvent'.attempt IN
            /\ \E i \in DOMAIN attempts :
                 /\ UNCHANGED call
                 /\ "encode" \in attempts[i].outstanding
                 /\ attempts[i].file = b.file
                 /\ attempts[i].prompt = b.prompt
                 /\ attempts'[i] = b
            /\ b.base64 = FileBody(b.file)
            /\ b.mimeType = FileType(b.file)
            /\ b.instruction = b.prompt]_vars

\* C17 witness: the service was called with the file and the prompt of the
\* trigger after the user had changed both.
C17_Witness ==
  /\ lastEvent.kind = "encodeResolved"
  /\ Len(attempts) = 1
  /\ attempts[1].instruction = "add a hat"
  /\ attempts[1].base64 = FileBody("cat.png")
  /\ prompt = "make it red"
  /\ originalFile = "dog.jpg"

\* C18: isLoading is true exactly while an attempt is in flight; only an
\* accepted trigger sets it and only the end of an attempt clears it.
C18_LoadingIffInFlight ==
  /\ [](isLoading <=> attempts # <<>>)
  /\ [][isLoading' # isLoading =>
          IF isLoading'
          THEN lastEvent'.kind = "click" /\ lastEvent'.text = "enabled"
          ELSE lastEvent'.kind \in FinishKinds]_vars

\* C18 witness: an attempt is awaiting the service and the user has just
\* selected another valid file.
C18_Witness ==
  /\ isLoading
  /\ Len(attempts) = 1
  /\ "submit" \in attempts[1].outstanding
  /\ lastEvent.kind = "selectFile"
  /\ lastEvent.file = "dog.jpg"

\* The index of the first comma of s, and the text after it.
FirstComma(s) ==
  CHOOSE k \in 1..Len(s) : s[k] = "," /\ \A j \in 1..(k-1) : s[j] # ","
HasComma(s) == \E k \in 1..Len(s) : s[k] = ","
AfterFirstComma(s) == SubSeq(s, FirstComma(s) + 1, Len(s))
\* The text of s before its first comma, all of s when it has none.
UpToComma(s) == IF HasComma(s) THEN SubSeq(s, 1, FirstComma(s) - 1) ELSE s

====
